---- MODULE Spec2Model ----
(***************************************************************************)
(* check_elasticache.py: a Nagios plugin for Amazon ElastiCache.  One run  *)
(* of main() is modelled: the parsed command line is the input, the two    *)
(* collaborators get_cluster_info and get_cluster_stats answer             *)
(* nondeterministically, and the run ends by printing a line and exiting.  *)
(*                                                                         *)
(* Numbers.  Python floats are modelled exactly as rationals [n, d] with a *)
(* positive denominator; every division of the program is by a vcpu count *)
(* (a power of two), by 1000000 or by a table entry, and the values drawn  *)
(* here are small integers, so the exact quotient orders like the float.   *)
(* Byte counts of the memory check are kept in MiB (2^20 bytes): every     *)
(* redis_maxmemory entry of the table is an exact multiple of 2^20.        *)
(***************************************************************************)
EXTENDS Integers, Sequences, FiniteSets, TLC

VARIABLES options, pc, info, status, note, perf_data, warns, crits, warn,
          crit, cpus, fail, j, used_memory, swap, calls, printed,
          exit_code, outcome

vars == <<options, pc, info, status, note, perf_data, warns, crits, warn,
          crit, cpus, fail, j, used_memory, swap, calls, printed,
          exit_code, outcome>>

----------------------------------------------------------------------------
(* Bounds of the model *)

\* longest comma separated threshold list given to --warn / --crit
MaxArgLen == 3
\* samples returned by the metrics backend are k * SampleStep, k \in 0..MaxSampleK
MaxSampleK == 3

----------------------------------------------------------------------------
(* Nagios status codes and process exit codes *)

OK == 0
WARNING == 1
CRITICAL == 2
UNKNOWN == 3
\* status = None
NoStatus == 0 - 1
\* exit code of argparse's parser.error(): it prints the usage and exits 2
ParserErrorExit == 2
\* exit code of the interpreter after an uncaught exception
TracebackExit == 1
\* exit code of sys.exit() without an argument
PlainExit == 0
\* exit_code while the process is running
NoExit == 0 - 1

short_status == [s \in {OK, WARNING, CRITICAL, UNKNOWN} |->
                   CASE s = OK -> "OK"
                     [] s = WARNING -> "WARN"
                     [] s = CRITICAL -> "CRIT"
                     [] s = UNKNOWN -> "UNK"]

----------------------------------------------------------------------------
(* Floats *)

Rat(n, d) == [n |-> n, d |-> d]
GE(a, b) == a.n * b.d >= b.n * a.d
GT(a, b) == a.n * b.d > b.n * a.d
LT(a, b) == a.n * b.d < b.n * a.d
RatEq(a, b) == a.n * b.d = b.n * a.d
Div(a, k) == Rat(a.n, a.d * k)

BytesPerMiB == 1024 * 1024

----------------------------------------------------------------------------
(* Static tables *)

\* redis_maxmemory in MiB, vcpu; the 'memory' entry is never read by main()
elasticache_classes ==
  [t \in {"cache.t2.micro", "cache.t2.small", "cache.t2.medium",
          "cache.m3.medium", "cache.m3.large", "cache.m3.xlarge",
          "cache.m3.2xlarge", "cache.r3.large", "cache.r3.xlarge",
          "cache.r3.2xlarge", "cache.r3.4xlarge", "cache.r3.8xlarge",
          "cache.m1.small", "cache.m1.medium", "cache.m1.large",
          "cache.m1.xlarge", "cache.m2.xlarge", "cache.m2.2xlarge",
          "cache.m2.4xlarge", "cache.c1.xlarge", "cache.t1.micro"} |->
     CASE t = "cache.t2.micro"   -> [redis_maxmemory |-> 555,    vcpu |-> 1]
       [] t = "cache.t2.small"   -> [redis_maxmemory |-> 1588,   vcpu |-> 1]
       [] t = "cache.t2.medium"  -> [redis_maxmemory |-> 3301,   vcpu |-> 2]
       [] t = "cache.m3.medium"  -> [redis_maxmemory |-> 2850,   vcpu |-> 1]
       [] t = "cache.m3.large"   -> [redis_maxmemory |-> 6200,   vcpu |-> 2]
       [] t = "cache.m3.xlarge"  -> [redis_maxmemory |-> 13600,  vcpu |-> 4]
       [] t = "cache.m3.2xlarge" -> [redis_maxmemory |-> 28600,  vcpu |-> 8]
       [] t = "cache.r3.large"   -> [redis_maxmemory |-> 13800,  vcpu |-> 2]
       [] t = "cache.r3.xlarge"  -> [redis_maxmemory |-> 29100,  vcpu |-> 4]
       [] t = "cache.r3.2xlarge" -> [redis_maxmemory |-> 59600,  vcpu |-> 8]
       [] t = "cache.r3.4xlarge" -> [redis_maxmemory |-> 120600, vcpu |-> 16]
       [] t = "cache.r3.8xlarge" -> [redis_maxmemory |-> 242600, vcpu |-> 32]
       [] t = "cache.m1.small"   -> [redis_maxmemory |-> 900,    vcpu |-> 1]
       [] t = "cache.m1.medium"  -> [redis_maxmemory |-> 2950,   vcpu |-> 1]
       [] t = "cache.m1.large"   -> [redis_maxmemory |-> 6700,   vcpu |-> 2]
       [] t = "cache.m1.xlarge"  -> [redis_maxmemory |-> 14200,  vcpu |-> 4]
       [] t = "cache.m2.xlarge"  -> [redis_maxmemory |-> 16300,  vcpu |-> 2]
       [] t = "cache.m2.2xlarge" -> [redis_maxmemory |-> 33400,  vcpu |-> 4]
       [] t = "cache.m2.4xlarge" -> [redis_maxmemory |-> 67600,  vcpu |-> 8]
       [] t = "cache.c1.xlarge"  -> [redis_maxmemory |-> 6200,   vcpu |-> 8]
       [] t = "cache.t1.micro"   -> [redis_maxmemory |-> 136,    vcpu |-> 1]]

metrics == {"status", "cpu", "memory", "swap"}

units == {"percent", "GB"}

\* the windows of the cpu check, in minutes
Windows == <<1, 5, 15>>

----------------------------------------------------------------------------
(* Command line *)

\* float(x) of one comma separated piece of --warn / --crit
NumeralValue == ("10" :> 10) @@ ("15" :> 15) @@ ("20" :> 20) @@
                ("25" :> 25) @@ ("30" :> 30)
IsFloat(tok) == tok \in DOMAIN NumeralValue
Float(tok) == Rat(NumeralValue[tok], 1)

Tokens == {"10", "30", "abc"}
ExampleWarn == <<"20", "15", "10">>
ExampleCrit == <<"30", "25", "20">>
\* a threshold argument is the sequence of its comma separated pieces;
\* << >> is an option that is absent (None) or empty
ArgStrings == UNION {[1..n -> Tokens] : n \in 0..MaxArgLen}
                \cup {ExampleWarn, ExampleCrit}

\* the command lines of a check: --unit is varied where it is read (memory)
\* and --no-threshold-calc where it is read (cpu)
OptionsOf(ms, us, ns) ==
  [region : {"eu-west-1"}, cluster_list : {FALSE}, ident : {"my-cluster"},
   info : {FALSE}, metric : ms, warn : ArgStrings, crit : ArgStrings,
   unit : us, no_threshold_calc : ns]

CheckOptions ==
  OptionsOf({"cpu"}, {"percent"}, BOOLEAN)
    \cup OptionsOf({"memory"}, units \cup {"MB"}, {FALSE})
    \cup OptionsOf({"status", "swap", "", "latency"}, {"percent"}, {FALSE})

\* the other command lines: the flags checked before the metric
ModeOptions ==
  [region : {"", "eu-west-1"}, cluster_list : BOOLEAN,
   ident : {"", "my-cluster"}, info : BOOLEAN,
   metric : metrics \cup {"", "latency"},
   warn : {<< >>}, crit : {<< >>}, unit : {"percent"},
   no_threshold_calc : {FALSE}]

----------------------------------------------------------------------------
(* Collaborators *)

Engines == {"redis", "memcached"}
\* "cache.m4.large" has no entry in elasticache_classes
NodeTypes == {"cache.t2.small", "cache.t2.medium", "cache.m4.large"}

\* get_cluster_info(region, identifier): the cluster's description, or None
\* (<< >>) after a BotoServerError
InfoResults ==
  {<< >>} \cup {<<[Engine |-> e, CacheNodeType |-> t]>> :
                  e \in Engines, t \in NodeTypes}

\* get_cluster_info(region): the list of identifiers, or None
ListResults == {<< >>, <<"my-cluster">>}

SampleStep(metric) ==
  CASE metric = "CPUUtilization" -> 12
    [] metric = "BytesUsedForCache" -> 128
    [] metric = "SwapUsage" -> 10 * 1000 * 1000

\* the data points CloudWatch returns: at most two, each [Timestamp, Average]
Datapoints(metric) ==
  LET Avgs == {k * SampleStep(metric) : k \in 0..MaxSampleK}
      Pts == [Timestamp : {1, 2}, Average : Avgs]
  IN {<< >>} \cup {<<p>> : p \in Pts}
       \cup {<<p, q>> : p \in {x \in Pts : x.Timestamp = 1},
                        q \in {x \in Pts : x.Timestamp = 2}}
       \cup {<<q, p>> : p \in {x \in Pts : x.Timestamp = 1},
                        q \in {x \in Pts : x.Timestamp = 2}}

\* get_cluster_stats: the empty list as it came, or the Average of the point
\* with the latest Timestamp; '%.2f' keeps the integers drawn here unchanged
get_cluster_stats(result) ==
  IF result # << >>
    THEN LET last == CHOOSE p \in {result[i] : i \in 1..Len(result)} :
                       \A i \in 1..Len(result) :
                         result[i].Timestamp <= p.Timestamp
         IN <<last.Average>>
    ELSE result

StatsResults(metric) == {get_cluster_stats(r) : r \in Datapoints(metric)}

\* `not info`
NotInfo(r) == r = << >>
\* `not cpu`, `not used_memory`: true of the empty list and of 0.0
NotStat(r) == r = << >> \/ r[1] = 0
\* `not isinstance(swap, float)`
NotFloat(r) == r = << >>

InfoCall(r) == [fn |-> "get_cluster_info", period |-> 0, lookback |-> 0,
                result |-> r]
StatsCall(period, lookback, r) ==
  [fn |-> "get_cluster_stats", period |-> period, lookback |-> lookback,
   result |-> r]

----------------------------------------------------------------------------
(* Initial state: lines 241-244 and the parsed command line *)

NoLine == [short |-> "", note |-> "", separator |-> FALSE, perf |-> << >>]

Init ==
  /\ options \in CheckOptions \cup ModeOptions
  /\ pc = "check_args"
  /\ info = << >>
  /\ status = NoStatus
  /\ note = ""
  /\ perf_data = << >>
  /\ warns = << >>
  /\ crits = << >>
  /\ warn = Rat(0, 1)
  /\ crit = Rat(0, 1)
  /\ cpus = << >>
  /\ fail = FALSE
  /\ j = 0
  /\ used_memory = << >>
  /\ swap = << >>
  /\ calls = << >>
  /\ printed = NoLine
  /\ exit_code = NoExit
  /\ outcome = "running"

\* the process ends without reaching the final output
Exit(kind, code) ==
  /\ pc' = "done"
  /\ outcome' = kind
  /\ exit_code' = code

ParserError == Exit("usage_error", ParserErrorExit)
Traceback == Exit("traceback", TracebackExit)

----------------------------------------------------------------------------
(* Argument checks, lines 207-239 *)

\* parse_args() rejects a missing --region (required=True) and line 215 an
\* empty one, both through parser.error(); line 210 cannot be reached after
\* parse_args() has seen a region.
CheckArgs ==
  /\ pc = "check_args"
  /\ IF options.region = ""
       THEN ParserError /\ UNCHANGED calls
     ELSE IF options.cluster_list
       THEN /\ \E r \in ListResults : calls' = Append(calls, InfoCall(r))
            /\ Exit("exit", PlainExit)
     ELSE IF options.ident = ""
       THEN ParserError /\ UNCHANGED calls
     ELSE IF options.info
       THEN /\ \E r \in InfoResults : calls' = Append(calls, InfoCall(r))
            /\ Exit("exit", PlainExit)
     ELSE IF options.metric = "" \/ options.metric \notin metrics
       THEN ParserError /\ UNCHANGED calls
     ELSE IF options.warn = << >> /\ options.metric # "status"
       THEN ParserError /\ UNCHANGED calls
     ELSE IF options.crit = << >> /\ options.metric # "status"
       THEN ParserError /\ UNCHANGED calls
     ELSE /\ pc' = options.metric
          /\ UNCHANGED <<calls, outcome, exit_code>>
  /\ UNCHANGED <<options, info, status, note, perf_data, warns, crits, warn,
                 crit, cpus, fail, j, used_memory, swap, printed>>

----------------------------------------------------------------------------
(* ElastiCache Status, lines 247-256 *)

\* StatusVerdict with the rule of the other checks applied to missing metadata
StatusVerdict_Unknown(r) ==
  IF NotInfo(r)
    THEN [status |-> UNKNOWN, note |-> "Unable to get ElastiCache cluster"]
    ELSE [status |-> OK,
          note |-> "<Engine> <EngineVersion>. Status: <CacheClusterStatus>"]

StatusVerdict(r) ==
  IF NotInfo(r)
    THEN [status |-> CRITICAL, note |-> "Unable to get ElastiCache cluster"]
    ELSE [status |-> OK,
          note |-> "<Engine> <EngineVersion>. Status: <CacheClusterStatus>"]

StatusCheck ==
  /\ pc = "status"
  /\ \E r \in InfoResults :
       /\ info' = r
       /\ calls' = Append(calls, InfoCall(r))
       /\ status' = StatusVerdict(r).status
       /\ note' = StatusVerdict(r).note
  /\ pc' = "final"
  /\ UNCHANGED <<options, perf_data, warns, crits, warn, crit, cpus, fail, j,
                 used_memory, swap, printed, exit_code, outcome>>

----------------------------------------------------------------------------
(* ElastiCache Load Average, lines 259-326 *)

\* lines 260-263
CpuInfo ==
  /\ pc = "cpu"
  /\ \E r \in InfoResults :
       /\ info' = r
       /\ calls' = Append(calls, InfoCall(r))
       /\ IF NotInfo(r)
            THEN /\ status' = UNKNOWN
                 /\ note' = "Unable to get ElastiCache details and statistics"
                 /\ pc' = "cpu_end"
            ELSE /\ pc' = "cpu_thresholds"
                 /\ UNCHANGED <<status, note>>
  /\ UNCHANGED <<options, perf_data, warns, crits, warn, crit, cpus, fail, j,
                 used_memory, swap, printed, exit_code, outcome>>

\* [float(x) for x in arg.split(',')]
FloatList(arg) == [i \in 1..Len(arg) |-> Float(arg[i])]
AllFloats(arg) == \A i \in 1..Len(arg) : IsFloat(arg[i])

\* lines 266-271: `fail`, the number of thresholds parsed, 0 after an exception
ThresholdCount(w, c) ==
  IF AllFloats(w) /\ AllFloats(c) THEN Len(w) + Len(c) ELSE 0

\* Normalize without the division by the vcpu count
Normalize_Skipped(thr, opts, inf) == thr

\* lines 279-283, once the node type is known to the table
Normalize(thr, opts, inf) ==
  IF ~opts.no_threshold_calc /\ inf.Engine = "redis"
    THEN [i \in 1..Len(thr) |->
            Div(thr[i], elasticache_classes[inf.CacheNodeType].vcpu)]
    ELSE thr

\* lines 265-287
CpuThresholds ==
  /\ pc = "cpu_thresholds"
  /\ IF ThresholdCount(options.warn, options.crit) # 6
       THEN /\ ParserError
            /\ UNCHANGED <<warns, crits, cpus, fail, j, perf_data>>
     ELSE IF /\ ~options.no_threshold_calc
             /\ info[1].Engine = "redis"
             /\ info[1].CacheNodeType \notin DOMAIN elasticache_classes
       THEN \* KeyError at line 280
            /\ Traceback
            /\ warns' = FloatList(options.warn)
            /\ crits' = FloatList(options.crit)
            /\ UNCHANGED <<cpus, fail, j, perf_data>>
     ELSE /\ warns' = Normalize(FloatList(options.warn), options, info[1])
          /\ crits' = Normalize(FloatList(options.crit), options, info[1])
          /\ cpus' = << >>
          /\ fail' = FALSE
          /\ j' = 0
          /\ perf_data' = << >>
          /\ pc' = "cpu_loop"
          /\ UNCHANGED <<outcome, exit_code>>
  /\ UNCHANGED <<options, info, status, note, warn, crit, used_memory, swap,
                 calls, printed>>

\* CpuCompare without the `if not fail` guard of line 311
CpuCompare_NoFailGuard(st, fl, cpu, w, c) ==
  IF GT(w, c)
    THEN [error |-> TRUE, status |-> st, fail |-> fl]
  ELSE IF GE(cpu, c)
    THEN [error |-> FALSE, status |-> CRITICAL, fail |-> TRUE]
  ELSE IF GE(cpu, w)
    THEN [error |-> FALSE, status |-> WARNING, fail |-> fl]
  ELSE [error |-> FALSE, status |-> st, fail |-> fl]

\* lines 311-319: the outcome of one window's comparison
CpuCompare(st, fl, cpu, w, c) ==
  IF ~fl
    THEN IF GT(w, c)
           THEN [error |-> TRUE, status |-> st, fail |-> fl]
         ELSE IF GE(cpu, c)
           THEN [error |-> FALSE, status |-> CRITICAL, fail |-> TRUE]
         ELSE IF GE(cpu, w)
           THEN [error |-> FALSE, status |-> WARNING, fail |-> fl]
         ELSE [error |-> FALSE, status |-> st, fail |-> fl]
    ELSE [error |-> FALSE, status |-> st, fail |-> fl]

\* LoopNext without the `break` of line 305
LoopNext_NoBreak(missing, jj) ==
  IF jj + 1 >= Len(Windows) THEN "cpu_end" ELSE "cpu_loop"

\* where the loop of line 288 goes after window jj (0-based): `break` at line
\* 305 when the sample is missing, the next window, or the end of the list
LoopNext(missing, jj) ==
  IF missing \/ jj + 1 >= Len(Windows) THEN "cpu_end" ELSE "cpu_loop"

\* one iteration of the loop, lines 288-320
CpuWindow ==
  /\ pc = "cpu_loop"
  /\ LET i == Windows[j + 1]
         n == IF i = 1 THEN 5 ELSE i
     IN \E r \in StatsResults("CPUUtilization") :
          /\ calls' = Append(calls, StatsCall(i * 60, n * 60, r))
          /\ IF NotStat(r)
               THEN /\ status' = UNKNOWN
                    /\ note' = "Unable to get ElastiCache statistics"
                    /\ perf_data' = << >>
                    /\ pc' = LoopNext(TRUE, j)
                    /\ UNCHANGED <<cpus, fail, j, outcome, exit_code>>
             ELSE IF j + 1 > Len(warns) \/ j + 1 > Len(crits)
               THEN \* IndexError at line 307
                    /\ Traceback
                    /\ cpus' = Append(cpus, r[1])
                    /\ UNCHANGED <<status, note, perf_data, fail, j>>
             ELSE LET cpu == Rat(r[1], 1)
                      cmp == CpuCompare(status, fail, cpu, warns[j + 1],
                                        crits[j + 1])
                  IN /\ cpus' = Append(cpus, r[1])
                     /\ perf_data' = Append(perf_data,
                          [name |-> "cpu", window |-> i, val |-> cpu,
                           warn |-> warns[j + 1], crit |-> crits[j + 1],
                           min |-> Rat(0, 1), max |-> Rat(100, 1)])
                     /\ IF cmp.error
                          THEN /\ ParserError
                               /\ UNCHANGED <<status, fail, j, note>>
                          ELSE /\ status' = cmp.status
                               /\ fail' = cmp.fail
                               /\ j' = j + 1
                               /\ pc' = LoopNext(FALSE, j)
                               /\ UNCHANGED <<note, outcome, exit_code>>
  /\ UNCHANGED <<options, info, warns, crits, warn, crit, used_memory, swap,
                 printed>>

\* lines 322-326; ' '.join keeps the entries
CpuEnd ==
  /\ pc = "cpu_end"
  /\ IF status # UNKNOWN
       THEN /\ status' = IF status = NoStatus THEN OK ELSE status
            /\ note' = "Load average: <cpus>"
       ELSE UNCHANGED <<status, note>>
  /\ pc' = "final"
  /\ UNCHANGED <<options, info, perf_data, warns, crits, warn, crit, cpus,
                 fail, j, used_memory, swap, calls, printed, exit_code,
                 outcome>>

----------------------------------------------------------------------------
(* ElastiCache Free Memory, lines 329-385, and swap, lines 387-419 *)

\* float(options.warn) succeeds on a single numeric piece only
IsScalar(arg) == Len(arg) = 1 /\ IsFloat(arg[1])

\* lines 331-341 (memory) and 389-396 (swap): the single thresholds
ScalarThresholds(next, check_unit) ==
  IF ~IsScalar(options.warn) \/ ~IsScalar(options.crit)
    THEN ParserError /\ UNCHANGED <<warn, crit>>
  ELSE IF LT(Float(options.crit[1]), Float(options.warn[1]))
    THEN /\ ParserError
         /\ warn' = Float(options.warn[1])
         /\ crit' = Float(options.crit[1])
  ELSE IF check_unit /\ options.unit \notin units
    THEN /\ ParserError
         /\ warn' = Float(options.warn[1])
         /\ crit' = Float(options.crit[1])
  ELSE /\ warn' = Float(options.warn[1])
       /\ crit' = Float(options.crit[1])
       /\ pc' = next
       /\ UNCHANGED <<outcome, exit_code>>

MemoryThresholds ==
  /\ pc = "memory"
  /\ ScalarThresholds("memory_fetch", TRUE)
  /\ UNCHANGED <<options, info, status, note, perf_data, warns, crits, cpus,
                 fail, j, used_memory, swap, calls, printed>>

\* "Compare thresholds", lines 370-376 and 409-415
Compare(val, w, c) ==
  IF GE(val, c) THEN CRITICAL
  ELSE IF GE(val, w) THEN WARNING
  ELSE OK

\* lines 361-367: the value compared and its display bound; used and max in MiB
MemoryValue(unit, used, max) ==
  IF unit = "percent"
    THEN [val |-> Rat(used * 100, max), val_max |-> Rat(100, 1)]
    ELSE [val |-> Rat(used * BytesPerMiB, 1), val_max |-> Rat(max, 1)]

\* lines 343-385
MemoryCheck ==
  /\ pc = "memory_fetch"
  /\ \E ri \in InfoResults, rs \in StatsResults("BytesUsedForCache") :
       /\ info' = ri
       /\ used_memory' = rs
       /\ calls' = calls \o <<InfoCall(ri), StatsCall(60, 60, rs)>>
       /\ IF NotInfo(ri) \/ NotStat(rs)
            THEN /\ status' = UNKNOWN
                 /\ note' = "Unable to get ElastiCache details and statistics"
                 /\ pc' = "final"
                 /\ UNCHANGED <<perf_data, outcome, exit_code>>
          ELSE IF ri[1].CacheNodeType \notin DOMAIN elasticache_classes
            THEN \* the handler of line 354 reads info.instance_class of a
                 \* dict: AttributeError, sys.exit(UNKNOWN) is not reached
                 /\ Traceback
                 /\ UNCHANGED <<status, note, perf_data>>
          ELSE LET max_memory ==
                     elasticache_classes[ri[1].CacheNodeType].redis_maxmemory
                   m == MemoryValue(options.unit, rs[1], max_memory)
               IN /\ status' = Compare(m.val, warn, crit)
                  /\ note' = "Used memory: <used> GB (<percent>%) of <max> GB"
                  /\ perf_data' = <<[name |-> "used_memory", window |-> 0,
                                     val |-> m.val, warn |-> warn,
                                     crit |-> crit, min |-> Rat(0, 1),
                                     max |-> m.val_max]>>
                  /\ pc' = "final"
                  /\ UNCHANGED <<outcome, exit_code>>
  /\ UNCHANGED <<options, warns, crits, warn, crit, cpus, fail, j, swap,
                 printed>>

SwapThresholds ==
  /\ pc = "swap"
  /\ ScalarThresholds("swap_fetch", FALSE)
  /\ UNCHANGED <<options, info, status, note, perf_data, warns, crits, cpus,
                 fail, j, used_memory, swap, calls, printed>>

\* lines 398-419
SwapCheck ==
  /\ pc = "swap_fetch"
  /\ \E ri \in InfoResults, rs \in StatsResults("SwapUsage") :
       /\ info' = ri
       /\ calls' = calls \o <<InfoCall(ri), StatsCall(60, 60, rs)>>
       /\ IF NotInfo(ri) \/ NotFloat(rs)
            THEN /\ status' = UNKNOWN
                 /\ note' = "Unable to get ElastiCache details and statistics"
                 /\ swap' = rs
                 /\ UNCHANGED perf_data
            ELSE LET mb == Rat(rs[1], 1000000)
                 IN /\ swap' = <<mb>>
                    /\ status' = Compare(mb, warn, crit)
                    /\ note' = "Used swap <swap> MB"
                    /\ perf_data' = <<[name |-> "swap", window |-> 0,
                                       val |-> mb, warn |-> warn,
                                       crit |-> crit, min |-> Rat(0, 1),
                                       max |-> Rat(0, 1)]>>
  /\ pc' = "final"
  /\ UNCHANGED <<options, warns, crits, warn, crit, cpus, fail, j,
                 used_memory, printed, exit_code, outcome>>

----------------------------------------------------------------------------
(* Final output, lines 421-426 *)

\* Render without the `and perf_data` of line 422
Render_StatusOnly(st, nt, perf) ==
  IF st # UNKNOWN
    THEN [short |-> short_status[st], note |-> nt, separator |-> TRUE,
          perf |-> perf]
    ELSE [short |-> short_status[st], note |-> nt, separator |-> FALSE,
          perf |-> << >>]

\* the line printed: with ' | <perf_data>' at line 423, without at line 425
Render(st, nt, perf) ==
  IF st # UNKNOWN /\ perf # << >>
    THEN [short |-> short_status[st], note |-> nt, separator |-> TRUE,
          perf |-> perf]
    ELSE [short |-> short_status[st], note |-> nt, separator |-> FALSE,
          perf |-> << >>]

FinalOutput ==
  /\ pc = "final"
  /\ printed' = Render(status, note, perf_data)
  /\ Exit("verdict", status)
  /\ UNCHANGED <<options, info, status, note, perf_data, warns, crits, warn,
                 crit, cpus, fail, j, used_memory, swap, calls>>

----------------------------------------------------------------------------

Next ==
  \/ CheckArgs
  \/ StatusCheck
  \/ CpuInfo
  \/ CpuThresholds
  \/ CpuWindow
  \/ CpuEnd
  \/ MemoryThresholds
  \/ MemoryCheck
  \/ SwapThresholds
  \/ SwapCheck
  \/ FinalOutput

Spec == Init /\ [][Next]_vars

TypeOK ==
  /\ pc \in {"check_args", "status", "cpu", "cpu_thresholds", "cpu_loop",
             "cpu_end", "memory", "memory_fetch", "swap", "swap_fetch",
             "final", "done"}
  /\ status \in {NoStatus, OK, WARNING, CRITICAL, UNKNOWN}
  /\ outcome \in {"running", "verdict", "usage_error", "exit", "traceback"}
  /\ j \in 0..Len(Windows)

----------------------------------------------------------------------------
(* Vocabulary of the properties *)

\* the run is a check of one metric: not --list, not --print, and the region
\* and the identifier are given
Checking ==
  /\ options.region # ""
  /\ ~options.cluster_list
  /\ options.ident # ""
  /\ ~options.info

ThresholdMetric == options.metric \in {"cpu", "memory", "swap"}

IsStatsCall(c) == c.fn = "get_cluster_stats"
StatsCalls == SelectSeq(calls, IsStatsCall)

\* a collaborator returned nothing: None from get_cluster_info, the empty
\* list from get_cluster_stats
Unavailable(c) == Len(c.result) = 0
SomeUnavailable == \E k \in 1..Len(calls) : Unavailable(calls[k])

\* the classification rule of the specification
Severity(sample, w, c) ==
  IF GE(sample, c) THEN CRITICAL
  ELSE IF GE(sample, w) THEN WARNING
  ELSE OK

Max2(a, b) == IF a >= b THEN a ELSE b

\* the thresholds as supplied mean warn > crit
WarnAboveCrit ==
  \/ /\ options.metric = "cpu"
     /\ Len(options.warn) = 3 /\ Len(options.crit) = 3
     /\ AllFloats(options.warn) /\ AllFloats(options.crit)
     /\ \E i \in 1..3 : GT(Float(options.warn[i]), Float(options.crit[i]))
  \/ /\ options.metric \in {"memory", "swap"}
     /\ IsScalar(options.warn) /\ IsScalar(options.crit)
     /\ GT(Float(options.warn[1]), Float(options.crit[1]))

----------------------------------------------------------------------------
(* C1: with thresholds of a cpu, memory or swap check that put warn above  *)
(* crit, no collaborator is ever called and the run ends in a              *)
(* configuration error.                                                    *)
C1_InconsistencyRejectedBeforeCalls ==
  (Checking /\ WarnAboveCrit) =>
     /\ calls = << >>
     /\ pc = "done" => outcome = "usage_error"

(* C2: a run that ends in a configuration error exits with a non-zero code *)
(* that is none of the verdict codes 0, 1, 2, 3.                           *)
C2_UsageErrorCodeDistinct ==
  outcome = "usage_error" =>
     exit_code \notin {0, OK, WARNING, CRITICAL, UNKNOWN}

(* C3: in the cpu, memory and swap checks a collaborator that returned     *)
(* nothing makes the status UNKNOWN and the run end with exit code 3; in   *)
(* the status check missing metadata makes the status CRITICAL, the run    *)
(* ends with exit code 2 whatever --warn and --crit hold, no sample is     *)
(* fetched and no performance data is printed.                             *)
C3_CollaboratorFailure ==
  (Checking /\ SomeUnavailable) =>
     IF ThresholdMetric
       THEN /\ status = UNKNOWN
            /\ pc = "done" => (outcome = "verdict" /\ exit_code = UNKNOWN)
       ELSE /\ options.metric = "status"
            /\ status = CRITICAL
            /\ StatsCalls = << >>
            /\ perf_data = << >>
            /\ pc = "done" => /\ outcome = "verdict"
                              /\ exit_code = CRITICAL
                              /\ ~printed.separator

\* the second cpu window is missing after a first window that was CRITICAL
C3_Witness ==
  /\ pc = "done"
  /\ options.metric = "cpu"
  /\ Len(calls) = 3
  /\ ~Unavailable(calls[2])
  /\ GE(Rat(calls[2].result[1], 1), crits[1])
  /\ Unavailable(calls[3])
  /\ exit_code = UNKNOWN

(* C4: a memory check whose metadata and sample are available but whose    *)
(* node type is not in the instance-class table ends with exit code 3 and  *)
(* without a traceback.                                                    *)
C4_UnknownClassExitsUnknown ==
  ( /\ pc = "done"
    /\ Checking
    /\ options.metric = "memory"
    /\ ~NotInfo(info)
    /\ used_memory # << >>
    /\ used_memory[1] > 0
    /\ info[1].CacheNodeType \notin DOMAIN elasticache_classes )
  => (exit_code = UNKNOWN /\ outcome # "traceback")

(* C5: a run that reaches the final output has one of the four statuses,   *)
(* prints the ' | <performance data>' part exactly when the status is not  *)
(* UNKNOWN and the performance data is not empty, and exits with the       *)
(* numeric status.                                                         *)
C5_FinalOutput ==
  outcome = "verdict" =>
     /\ status \in {OK, WARNING, CRITICAL, UNKNOWN}
     /\ printed.separator <=> (status # UNKNOWN /\ perf_data # << >>)
     /\ printed.separator => printed.perf = perf_data
     /\ printed.short = short_status[status]
     /\ exit_code = status

\* a verdict without performance data (the status check) prints no separator
C5_Witness ==
  /\ outcome = "verdict"
  /\ status = OK
  /\ perf_data = << >>
  /\ ~printed.separator
  /\ exit_code = 0

(* C6: a cpu check with metadata, warn <= crit in the three windows and    *)
(* three positive samples ends with the maximum of the three windows'      *)
(* classifications against the effective thresholds.                       *)
C6_CpuVerdictIsMaximum ==
  ( /\ pc \in {"final", "done"}
    /\ Checking
    /\ options.metric = "cpu"
    /\ ~NotInfo(info)
    /\ Len(cpus) = 3 /\ Len(warns) = 3 /\ Len(crits) = 3
    /\ \A i \in 1..3 : cpus[i] > 0 /\ ~GT(warns[i], crits[i]) )
  => /\ status = Max2(Severity(Rat(cpus[1], 1), warns[1], crits[1]),
                 Max2(Severity(Rat(cpus[2], 1), warns[2], crits[2]),
                      Severity(Rat(cpus[3], 1), warns[3], crits[3])))
     /\ pc = "done" => (outcome = "verdict" /\ exit_code = status)

\* CRITICAL in the 1-minute window, then OK, then WARNING: still CRITICAL
C6_Witness ==
  /\ pc = "done"
  /\ options.metric = "cpu"
  /\ Len(cpus) = 3 /\ Len(warns) = 3 /\ Len(crits) = 3
  /\ \A i \in 1..3 : ~GT(warns[i], crits[i])
  /\ Severity(Rat(cpus[1], 1), warns[1], crits[1]) = CRITICAL
  /\ Severity(Rat(cpus[2], 1), warns[2], crits[2]) = OK
  /\ Severity(Rat(cpus[3], 1), warns[3], crits[3]) = WARNING
  /\ exit_code = CRITICAL

(* C7: the cpu check fetches its samples for the 1, 5 and 15 minute        *)
(* windows in that order; after a sample that is missing nothing more is   *)
(* fetched, the status is UNKNOWN from then on and the performance data    *)
(* gathered so far is dropped.                                             *)
C7_CpuShortCircuit ==
  (Checking /\ options.metric = "cpu") =>
     /\ Len(StatsCalls) <= Len(Windows)
     /\ \A k \in 1..Len(StatsCalls) :
          /\ StatsCalls[k].period = Windows[k] * 60
          /\ k < Len(StatsCalls) => ~Unavailable(StatsCalls[k])
     /\ (\E k \in 1..Len(StatsCalls) : Unavailable(StatsCalls[k])) =>
          /\ status = UNKNOWN
          /\ perf_data = << >>
          /\ pc = "done" => /\ outcome = "verdict"
                            /\ exit_code = UNKNOWN
                            /\ ~printed.separator

\* the 5-minute sample is missing after the 1-minute window was evaluated
C7_Witness ==
  /\ pc = "done"
  /\ options.metric = "cpu"
  /\ Len(StatsCalls) = 2
  /\ Len(cpus) = 1
  /\ Unavailable(StatsCalls[2])
  /\ perf_data = << >>
  /\ exit_code = UNKNOWN

(* C8: a memory check that gives a verdict compares, with unit GB, the     *)
(* bytes in use converted to GB, and with unit percent, sample / ceiling * *)
(* 100, against warn and crit.                                             *)
C8_MemoryComparedInUnit ==
  ( /\ pc = "done"
    /\ options.metric = "memory"
    /\ outcome = "verdict"
    /\ status # UNKNOWN )
  => LET max_memory ==
           elasticache_classes[info[1].CacheNodeType].redis_maxmemory
     IN IF options.unit = "GB"
          THEN status = Severity(Rat(used_memory[1], 1024), warn, crit)
          ELSE status = Severity(Rat(used_memory[1] * 100, max_memory),
                                 warn, crit)

(* C9: in a cpu check that got past the threshold checks, the thresholds   *)
(* compared and printed are the supplied ones divided by the node type's   *)
(* vcpu count when the engine is redis and --no-threshold-calc is not      *)
(* given, and the supplied ones otherwise.                                 *)
C9_EffectiveThresholds ==
  ( /\ pc \in {"cpu_loop", "cpu_end", "final", "done"}
    /\ options.metric = "cpu"
    /\ ~NotInfo(info)
    /\ ThresholdCount(options.warn, options.crit) = 6
    /\ outcome # "traceback" )
  => LET divisor ==
           IF ~options.no_threshold_calc /\ info[1].Engine = "redis"
             THEN elasticache_classes[info[1].CacheNodeType].vcpu
             ELSE 1
     IN /\ Len(warns) = Len(options.warn) /\ Len(crits) = Len(options.crit)
        /\ \A i \in 1..Len(warns) :
             RatEq(warns[i], Rat(NumeralValue[options.warn[i]], divisor))
        /\ \A i \in 1..Len(crits) :
             RatEq(crits[i], Rat(NumeralValue[options.crit[i]], divisor))
        /\ \A k \in 1..Len(perf_data) :
             perf_data[k].warn = warns[k] /\ perf_data[k].crit = crits[k]

\* warn 20,15,10 and crit 30,25,20 on a redis node with 2 vcpus
C9_Witness ==
  /\ pc = "done"
  /\ options.metric = "cpu"
  /\ options.warn = ExampleWarn /\ options.crit = ExampleCrit
  /\ ~options.no_threshold_calc
  /\ ~NotInfo(info)
  /\ info[1].Engine = "redis"
  /\ info[1].CacheNodeType = "cache.t2.medium"
  /\ Len(warns) = 3 /\ Len(crits) = 3
  /\ RatEq(warns[1], Rat(10, 1)) /\ RatEq(warns[2], Rat(15, 2))
  /\ RatEq(warns[3], Rat(5, 1))
  /\ RatEq(crits[1], Rat(15, 1)) /\ RatEq(crits[2], Rat(25, 2))
  /\ RatEq(crits[3], Rat(10, 1))
  /\ Len(perf_data) = 3
  /\ outcome = "verdict"

(* C10: a cpu, memory or swap check ends UNKNOWN only when the metadata or *)
(* a sample was not returned; a sample of 0 is classified like any other.  *)
C10_UnknownOnlyWhenUnavailable ==
  ( /\ pc = "done"
    /\ Checking
    /\ ThresholdMetric
    /\ outcome = "verdict"
    /\ status = UNKNOWN )
  => SomeUnavailable

====
